---- MODULE Spec2Model ----
(***************************************************************************)
(* State-machine model of micromentor/src/training/train_model.py:         *)
(* the MicroMentorTrainer object (config, model, history), the file system *)
(* and console it touches, and the two ways its methods get called: by     *)
(* main() (specification Spec) and by an arbitrary caller that constructs  *)
(* one trainer and calls its methods in any order (specification SpecAPI). *)
(*                                                                         *)
(* Conventions.  An optional value (Python None) is the empty sequence and *)
(* a present value x is <<x>>.  A path is the sequence of its components.  *)
(* A validation loss is an integer number of 1e-4 units; NaN is a separate *)
(* value that compares false with everything.  The learning rate is kept   *)
(* as the number of times 0.001 has been multiplied by the factor 0.5.     *)
(***************************************************************************)
EXTENDS Integers, Sequences, FiniteSets, TLC

(***************************************************************************)
(* Bounds of the model (inputs are drawn from these ranges).               *)
(***************************************************************************)
MaxLoss == 2
MaxEpochsArg == 3
MaxCalls == 2
MaxSeed == 1
MaxClockEvents == 1
ClockSetBack == 500

(***************************************************************************)
(* Constants of the program.                                               *)
(***************************************************************************)
NumSamples == 1000
NumEmotions == 5
WarmupRuns == 10
MeasureRuns == 100
MsPerSecond == 1000
EsPatience == 3
RlrPatience == 2
RlrMinDelta == 1
DefaultEpochs == 10
FitBatchSize == 32
MainEpochs == 5
MainBatchSize == 32

None == << >>
Some(x) == << x >>

NaN == MaxLoss + 1
Inf == MaxLoss + RlrMinDelta + 2
ValLosses == (0 .. MaxLoss) \cup {NaN}
\* numpy.less on floats: false as soon as one side is NaN.
Less(a, b) == a # NaN /\ b # NaN /\ a < b

\* os.path.join(base, name) for a relative one-component name.
Join(base, name) == base \o << name >>
Parent(path) == SubSeq(path, 1, Len(path) - 1)
IsUnder(path, base) ==
    /\ Len(path) > Len(base)
    /\ SubSeq(path, 1, Len(base)) = base
Ancestors(path) == { SubSeq(path, 1, k) : k \in 1 .. Len(path) }

\* The working directory, which relative paths start from.
WorkDir == << >>

ConfigPath == << "config", "training_config.json" >>
MainOutputDir == << "models", "tfjs" >>

\* The dictionary main() builds and dumps.
MainConfig ==
    [ output_path |-> << "models" >>,
      epochs |-> MainEpochs,
      batch_size |-> MainBatchSize ]

\* A configuration file left behind by an earlier run with other settings.
StaleConfig ==
    [ output_path |-> << "old_models" >>,
      epochs |-> MainEpochs + 1,
      batch_size |-> MainBatchSize + 1 ]

\* Configuration files an arbitrary caller may point the trainer at.
ApiConfigs ==
    { MainConfig,
      [ MainConfig EXCEPT !.epochs = 1, !.batch_size = 16 ],
      [ MainConfig EXCEPT !.output_path = << "out", "edge" >> ] }

\* The content of a JSON file: the value it holds, and whether it parses.
JsonDoc(value) == [ wellformed |-> TRUE, value |-> value ]
TruncatedDoc(value) == [ wellformed |-> FALSE, value |-> value ]

VARIABLES
    pc,          \* position of the single thread of control
    stack,       \* return positions of the calls in progress
    exc,         \* the exception that ended the process, if any
    dirs,        \* file system: directories that exist
    cfgFile,     \* file system: content of config/training_config.json
    artifacts,   \* file system: model artifacts written, path and content
    console,     \* lines printed so far
    config,      \* self.config
    model,       \* self.model
    history,     \* self.history
    epochsArg,   \* train(epochs=...): the argument passed, if any
    ret,         \* value returned by the last method that returned
    fit,         \* keras fit(): its arguments, loop and callback state
    bench,       \* evaluate_latency(): loop counters and latencies
    log,         \* begin/end of every method call, in order
    cfgReads,    \* number of times the configuration file has been loaded
    keysRead,    \* keys of self.config read by trainer methods
    modelsBuilt, \* number of models assembled
    callsLeft    \* SpecAPI: calls the caller may still make

vars ==
    << pc, stack, exc, dirs, cfgFile, artifacts, console, config, model,
       history, epochsArg, ret, fit, bench, log, cfgReads, keysRead,
       modelsBuilt, callsLeft >>

files == << dirs, cfgFile, artifacts >>
trainer == << config, model, history >>
locals == << epochsArg, ret, fit, bench >>
ghosts == << cfgReads, keysRead, modelsBuilt >>

IdleFit ==
    [ active |-> FALSE, epochs |-> 0, batch_size |-> 0, samples |-> 0,
      val_samples |-> 0, epoch |-> 0, stop |-> FALSE, loss |-> 0, lr0 |-> 0,
      es |-> [ wait |-> 0, best |-> Inf, stopped_epoch |-> 0 ],
      rlr |-> [ wait |-> 0, best |-> Inf ],
      hist |-> [ epochs |-> 0, best |-> Inf, plateau |-> 0 ] ]

IdleBench == [ warm |-> 0, count |-> 0, sum |-> 0, events |-> 0 ]

(***************************************************************************)
(* Calls, returns and exceptions.                                          *)
(***************************************************************************)
EntryOf(method) ==
    CASE method = "__init__" -> "init_load"
      [] method = "create_model" -> "cm_build"
      [] method = "prepare_data" -> "pd_generate"
      [] method = "train" -> "tr_enter"
      [] method = "optimize_for_edge" -> "opt_convert"
      [] method = "save_model" -> "save_h5"
      [] method = "evaluate_latency" -> "ev_warmup"

Enter(method, retLabel) ==
    /\ pc' = EntryOf(method)
    /\ stack' = << retLabel >> \o stack
    /\ log' = Append(log, << method, "begin" >>)

Leave(method) ==
    /\ pc' = Head(stack)
    /\ stack' = Tail(stack)
    /\ log' = Append(log, << method, "end" >>)

\* Variant of Raise: the exception is noted and the failed step is run again.
RaiseRetried(step) ==
    /\ exc' = Some(step)
    /\ UNCHANGED << pc, stack, config, model, history, epochsArg, ret, fit,
                    bench, console, log, ghosts, callsLeft >>

\* No frame of the program catches anything: an exception raised in `step`
\* unwinds every frame and ends the process.  What the process held in
\* memory is gone; the file system and the console stay as they are.
Raise(step) ==
    /\ pc' = "terminated"
    /\ exc' = Some(step)
    /\ stack' = << >>
    /\ config' = None
    /\ model' = None
    /\ history' = None
    /\ epochsArg' = None
    /\ ret' = None
    /\ fit' = IdleFit
    /\ bench' = IdleBench
    /\ UNCHANGED << console, log, ghosts, callsLeft >>

(***************************************************************************)
(* MicroMentorTrainer.__init__                                             *)
(***************************************************************************)
TrainerInit ==
    /\ pc = "init_load"
    /\ \/ /\ cfgFile # None
          /\ cfgFile[1].wellformed
          /\ config' = Some(cfgFile[1].value)
          /\ model' = None
          /\ history' = None
          /\ cfgReads' = cfgReads + 1
          /\ Leave("__init__")
          /\ UNCHANGED << exc, files, console, locals, keysRead,
                          modelsBuilt, callsLeft >>
       \/ /\ Raise("config_read")
          /\ UNCHANGED files

(***************************************************************************)
(* MicroMentorTrainer.create_model                                         *)
(***************************************************************************)
\* Variant of AssembledModel: the backbone is left trainable and the two
\* outputs are passed to keras.Model in the other order.
AssembledModelUnfrozen ==
    [ input_shape |-> << 224, 224, 3 >>,
      backbone |-> [ name |-> "MobileNetV2", weights |-> "imagenet",
                     include_top |-> FALSE, trainable |-> TRUE ],
      head |-> << "GlobalAveragePooling2D", "Dense(128, relu)",
                  "Dropout(0.2)" >>,
      outputs |-> << [ name |-> "fatigue", units |-> 1,
                       activation |-> "sigmoid" ],
                     [ name |-> "emotion", units |-> 5,
                       activation |-> "softmax" ] >>,
      compiled |-> FALSE,
      loss |-> None,
      metrics |-> None,
      lrHalvings |-> 0,
      weights |-> "initial" ]

\* keras.Model(inputs, [emotion_output, fatigue_output]) over the frozen
\* MobileNetV2 backbone, before compile().
AssembledModel ==
    [ input_shape |-> << 224, 224, 3 >>,
      backbone |-> [ name |-> "MobileNetV2", weights |-> "imagenet",
                     include_top |-> FALSE, trainable |-> FALSE ],
      head |-> << "GlobalAveragePooling2D", "Dense(128, relu)",
                  "Dropout(0.2)" >>,
      outputs |-> << [ name |-> "emotion", units |-> 5,
                       activation |-> "softmax" ],
                     [ name |-> "fatigue", units |-> 1,
                       activation |-> "sigmoid" ] >>,
      compiled |-> FALSE,
      loss |-> None,
      metrics |-> None,
      lrHalvings |-> 0,
      weights |-> "initial" ]

\* model.compile(optimizer=Adam(0.001), loss={...}, metrics={...})
Compiled(m) ==
    [ m EXCEPT
        !.compiled = TRUE,
        !.loss = Some([ emotion |-> "categorical_crossentropy",
                        fatigue |-> "binary_crossentropy" ]),
        !.metrics = Some([ emotion |-> << "accuracy" >>,
                           fatigue |-> << "accuracy" >> ]),
        !.lrHalvings = 0 ]

\* The per-sample shape of a Dense(units) output over a vector.
OutputShape(layer) == << layer.units >>

CreateModelBuild ==
    /\ pc = "cm_build"
    /\ \/ /\ model' = Some(AssembledModel)
          /\ modelsBuilt' = modelsBuilt + 1
          /\ pc' = "cm_compile"
          /\ UNCHANGED << stack, exc, files, console, config, history,
                          locals, log, cfgReads, keysRead, callsLeft >>
       \/ /\ Raise("create_model")
          /\ UNCHANGED files

CreateModelCompile ==
    /\ pc = "cm_compile"
    /\ \/ /\ model' = Some(Compiled(model[1]))
          /\ ret' = model'
          /\ Leave("create_model")
          /\ UNCHANGED << exc, files, console, config, history, epochsArg, fit, bench, ghosts, callsLeft >>
       \/ /\ Raise("compile")
          /\ UNCHANGED files

(***************************************************************************)
(* MicroMentorTrainer.prepare_data                                         *)
(***************************************************************************)
Seeds == 0 .. MaxSeed

\* The draws of numpy's generator, as a function of its state and of the
\* sample's index: np.random.randint(0, 5) and np.random.rand().
EmotionOf(seed, i) == (seed + 3 * i) % NumEmotions
FatigueOf(seed, i) == (seed + i) % 2

\* tf.keras.utils.to_categorical(emotions, 5): one row per sample.
ToCategorical(label, classes) ==
    [ k \in 1 .. classes |-> IF k = label + 1 THEN 1 ELSE 0 ]

\* a[lo:hi] of a Python sequence (0-based, hi excluded).
Slice(a, lo, hi) == SubSeq(a, lo + 1, hi)

\* Variant of SplitIdx: the fractions of the two parts are swapped.
SplitIdxSwapped(n) == (2 * n) \div 10

\* int(0.8 * num_samples)
SplitIdx(n) == (8 * n) \div 10

\* The value prepare_data returns when numpy's generator is in state `seed`.
\* A sample of X is kept as its index in X (its pixels are never looked at).
PreparedData(seed, n) ==
    LET X == [ i \in 1 .. n |-> i - 1 ]
        y_emotion == [ i \in 1 .. n |->
                         ToCategorical(EmotionOf(seed, i - 1), NumEmotions) ]
        y_fatigue == [ i \in 1 .. n |-> << FatigueOf(seed, i - 1) >> ]
        split_idx == SplitIdx(n)
    IN  [ seed |-> seed,
          train |-> [ X |-> Slice(X, 0, split_idx),
                      emotion |-> Slice(y_emotion, 0, split_idx),
                      fatigue |-> Slice(y_fatigue, 0, split_idx) ],
          val |-> [ X |-> Slice(X, split_idx, n),
                    emotion |-> Slice(y_emotion, split_idx, n),
                    fatigue |-> Slice(y_fatigue, split_idx, n) ] ]

PrepareData ==
    /\ pc = "pd_generate"
    /\ \/ /\ \E seed \in Seeds : ret' = Some(PreparedData(seed, NumSamples))
          /\ Leave("prepare_data")
          /\ UNCHANGED << exc, files, console, trainer, epochsArg, fit,
                          bench, ghosts, callsLeft >>
       \/ /\ Raise("prepare_data")
          /\ UNCHANGED files

(***************************************************************************)
(* MicroMentorTrainer.train and the framework's fit loop with the two      *)
(* callbacks train() configures.                                           *)
(***************************************************************************)
\* What a caller may pass as train's epochs: nothing, or a number.
EpochArgs == { None } \cup { Some(n) : n \in 1 .. MaxEpochsArg }

\* Variant of FitArgs: the hyperparameters are taken from the configuration.
FitArgsFromConfig(arg, cfg) ==
    [ epochs |-> cfg.epochs, batch_size |-> cfg.batch_size ]

\* def train(self, epochs=10) ... fit(..., epochs=epochs, batch_size=32):
\* the epochs and batch_size train hands to model.fit.
FitArgs(arg, cfg) ==
    [ epochs |-> IF arg = None THEN DefaultEpochs ELSE arg[1],
      batch_size |-> FitBatchSize ]

\* The History callback's val_loss list, kept as its length, its minimum and
\* the number of entries since the last new minimum.
HistoryRecord(hist, current) ==
    IF Less(current, hist.best)
    THEN [ epochs |-> hist.epochs + 1, best |-> current, plateau |-> 0 ]
    ELSE [ hist EXCEPT !.epochs = @ + 1, !.plateau = @ + 1 ]

\* Variant of EarlyStoppingEpochEnd: the wait counter must exceed the patience.
EarlyStoppingEpochEndLate(es, epoch, current) ==
    LET waited == es.wait + 1
    IN  IF Less(current, es.best)
        THEN [ es |-> [ es EXCEPT !.wait = 0, !.best = current ],
               stop |-> FALSE ]
        ELSE IF waited > EsPatience /\ epoch > 0
             THEN [ es |-> [ es EXCEPT !.wait = waited,
                                       !.stopped_epoch = epoch ],
                    stop |-> TRUE ]
             ELSE [ es |-> [ es EXCEPT !.wait = waited ], stop |-> FALSE ]

\* EarlyStopping(monitor='val_loss', patience=3).on_epoch_end: the new
\* callback state, and whether it sets model.stop_training.
EarlyStoppingEpochEnd(es, epoch, current) ==
    LET waited == es.wait + 1
    IN  IF Less(current, es.best)
        THEN [ es |-> [ es EXCEPT !.wait = 0, !.best = current ],
               stop |-> FALSE ]
        ELSE IF waited >= EsPatience /\ epoch > 0
             THEN [ es |-> [ es EXCEPT !.wait = waited,
                                       !.stopped_epoch = epoch ],
                    stop |-> TRUE ]
             ELSE [ es |-> [ es EXCEPT !.wait = waited ], stop |-> FALSE ]

\* ReduceLROnPlateau(monitor='val_loss', factor=0.5, patience=2)
\* .on_epoch_end, with the defaults min_delta=1e-4, cooldown=0, min_lr=0:
\* the new callback state and the new learning rate.
ReduceLREpochEnd(rlr, current, lrHalvings) ==
    IF Less(current, rlr.best - RlrMinDelta)
    THEN [ rlr |-> [ wait |-> 0, best |-> current ],
           lrHalvings |-> lrHalvings ]
    ELSE IF rlr.wait + 1 >= RlrPatience
         THEN [ rlr |-> [ rlr EXCEPT !.wait = 0 ],
                lrHalvings |-> lrHalvings + 1 ]
         ELSE [ rlr |-> [ rlr EXCEPT !.wait = @ + 1 ],
                lrHalvings |-> lrHalvings ]

\* Variant of TrainEnter: create_model is called whether or not a model exists.
TrainEnterAlwaysCreates ==
    /\ pc = "tr_enter"
    /\ Enter("create_model", "tr_prepare")
    /\ UNCHANGED << exc, files, console, trainer, locals, ghosts, callsLeft >>

\* if self.model is None: self.create_model()
TrainEnter ==
    /\ pc = "tr_enter"
    /\ IF model = None
       THEN Enter("create_model", "tr_prepare")
       ELSE pc' = "tr_prepare" /\ UNCHANGED << stack, log >>
    /\ UNCHANGED << exc, files, console, trainer, locals, ghosts, callsLeft >>

\* train_data, val_data = self.prepare_data()
TrainPrepare ==
    /\ pc = "tr_prepare"
    /\ Enter("prepare_data", "tr_fit")
    /\ UNCHANGED << exc, files, console, trainer, locals, ghosts, callsLeft >>

\* self.model.fit(train_data[0], train_data[1], validation_data=val_data,
\* epochs=epochs, batch_size=32, callbacks=callbacks) starts.  Of the arrays
\* fit keeps their numbers of samples.
FitBegin ==
    /\ pc = "tr_fit"
    /\ LET args == FitArgs(epochsArg, config[1])
       IN  fit' = [ IdleFit EXCEPT !.active = TRUE,
                                   !.epochs = args.epochs,
                                   !.batch_size = args.batch_size,
                                   !.samples = Len(ret[1].train.X),
                                   !.val_samples = Len(ret[1].val.X),
                                   !.lr0 = model[1].lrHalvings ]
    /\ ret' = None
    /\ pc' = "fit_loop"
    /\ log' = Append(log, << "fit", "begin" >>)
    /\ UNCHANGED << stack, exc, files, console, trainer, epochsArg, bench,
                    ghosts, callsLeft >>

\* One epoch of training and validation, ending with a validation loss.
FitEpoch ==
    /\ pc = "fit_loop"
    /\ fit.epoch < fit.epochs
    /\ ~ fit.stop
    /\ \/ /\ \E current \in ValLosses :
                fit' = [ fit EXCEPT !.loss = current,
                                    !.hist = HistoryRecord(@, current) ]
          /\ model' = Some([ model[1] EXCEPT !.weights = "trained" ])
          /\ pc' = "cb_earlystop"
          /\ UNCHANGED << stack, exc, files, console, config, history,
                          epochsArg, ret, bench, log, ghosts,
                          callsLeft >>
       \/ /\ Raise("fit")
          /\ UNCHANGED files

CallbackEarlyStopping ==
    /\ pc = "cb_earlystop"
    /\ LET r == EarlyStoppingEpochEnd(fit.es, fit.epoch, fit.loss)
       IN  fit' = [ fit EXCEPT !.es = r.es, !.stop = r.stop ]
    /\ pc' = "cb_reducelr"
    /\ UNCHANGED << stack, exc, files, console, trainer, epochsArg, ret, bench, log, ghosts, callsLeft >>

CallbackReduceLR ==
    /\ pc = "cb_reducelr"
    /\ LET r == ReduceLREpochEnd(fit.rlr, fit.loss, model[1].lrHalvings)
       IN  /\ fit' = [ fit EXCEPT !.rlr = r.rlr, !.epoch = @ + 1 ]
           /\ model' = Some([ model[1] EXCEPT !.lrHalvings = r.lrHalvings ])
    /\ pc' = "fit_loop"
    /\ UNCHANGED << stack, exc, files, console, config, history, epochsArg,
                    ret, bench, log, ghosts, callsLeft >>

\* The loop ends (epochs exhausted, or stop_training set); fit returns the
\* History object and train() stores and returns it.  Of the History that
\* outlives fit, the number of epochs it recorded is kept.  Which epoch's
\* weights restore_best_weights leaves in the model is not modelled.
FitFinish ==
    /\ pc = "fit_loop"
    /\ fit.epoch >= fit.epochs \/ fit.stop
    /\ history' = Some([ epochs |-> fit.hist.epochs ])
    /\ ret' = history'
    /\ epochsArg' = None
    /\ fit' = IdleFit
    /\ pc' = Head(stack)
    /\ stack' = Tail(stack)
    /\ log' = log \o << << "fit", "end" >>, << "train", "end" >> >>
    /\ UNCHANGED << exc, files, console, config, model, bench, ghosts,
                    callsLeft >>

(***************************************************************************)
(* MicroMentorTrainer.optimize_for_edge                                    *)
(***************************************************************************)
\* Put content at path: open(path, 'wb') and the savers replace what is there.
Put(fs, path, content) ==
    { f \in fs : f.path # path } \cup { [ path |-> path, content |-> content ] }

\* Variant of TflitePath: the file name alone, relative to the working directory.
TflitePathBare(cfg) == << "micromentor_edge.tflite" >>

\* os.path.join(self.config['output_path'], 'micromentor_edge.tflite')
TflitePath(cfg) == Join(cfg.output_path, "micromentor_edge.tflite")

\* os.path.join(self.config['output_path'], 'micromentor_model.h5')
KerasPath(cfg) == Join(cfg.output_path, "micromentor_model.h5")

\* os.path.join(self.config['output_path'], 'tfjs')
TfjsPath(cfg) == Join(cfg.output_path, "tfjs")

\* TFLiteConverter.from_keras_model(self.model) ... converter.convert()
OptimizeConvert ==
    /\ pc = "opt_convert"
    /\ \/ /\ model # None
          /\ pc' = "opt_open"
          /\ UNCHANGED << stack, exc, files, console, trainer, locals, log,
                          ghosts, callsLeft >>
       \/ /\ Raise("convert")
          /\ UNCHANGED files

\* open(tflite_path, 'wb'): the file is created, or emptied, in a directory
\* that exists.
OptimizeOpen ==
    /\ pc = "opt_open"
    /\ \/ /\ Parent(TflitePath(config[1])) \in dirs
          /\ artifacts' = Put(artifacts, TflitePath(config[1]), "empty")
          /\ keysRead' = keysRead \cup {"output_path"}
          /\ pc' = "opt_write"
          /\ UNCHANGED << stack, exc, dirs, cfgFile, console, trainer,
                          locals, log, cfgReads, modelsBuilt, callsLeft >>
       \/ /\ Raise("tflite_open")
          /\ UNCHANGED files

\* f.write(tflite_model), the size report, return tflite_path
OptimizeWrite ==
    /\ pc = "opt_write"
    /\ \/ /\ artifacts' = Put(artifacts, TflitePath(config[1]), "tflite")
          /\ console' = Append(console, "Optimized model size")
          /\ ret' = Some(TflitePath(config[1]))
          /\ Leave("optimize_for_edge")
          /\ UNCHANGED << exc, dirs, cfgFile, trainer, epochsArg, fit,
                          bench, ghosts, callsLeft >>
       \/ /\ Raise("tflite_write")
          /\ UNCHANGED files

(***************************************************************************)
(* MicroMentorTrainer.save_model                                           *)
(***************************************************************************)
\* Variant of SaveModelKeras: the method keeps the path it built in the
\* configuration record.
SaveModelKerasStoresPath ==
    /\ pc = "save_h5"
    /\ \/ /\ model # None
          /\ Parent(KerasPath(config[1])) \in dirs
          /\ artifacts' = Put(artifacts, KerasPath(config[1]), "h5")
          /\ config' = Some([ config[1] EXCEPT
                                !.output_path = KerasPath(config[1]) ])
          /\ keysRead' = keysRead \cup {"output_path"}
          /\ pc' = "save_tfjs"
          /\ UNCHANGED << stack, exc, dirs, cfgFile, console, model, history,
                          locals, log, cfgReads, modelsBuilt, callsLeft >>
       \/ /\ Raise("save_h5")
          /\ UNCHANGED files

\* self.model.save(keras_path)
SaveModelKeras ==
    /\ pc = "save_h5"
    /\ \/ /\ model # None
          /\ Parent(KerasPath(config[1])) \in dirs
          /\ artifacts' = Put(artifacts, KerasPath(config[1]), "h5")
          /\ keysRead' = keysRead \cup {"output_path"}
          /\ pc' = "save_tfjs"
          /\ UNCHANGED << stack, exc, dirs, cfgFile, console, trainer,
                          locals, log, cfgReads, modelsBuilt, callsLeft >>
       \/ /\ Raise("save_h5")
          /\ UNCHANGED files

\* tf.saved_model.save(self.model, tfjs_path), which creates the directory
\* and those above it, then the two prints.
SaveModelTfjs ==
    /\ pc = "save_tfjs"
    /\ \/ /\ dirs' = dirs \cup Ancestors(TfjsPath(config[1]))
          /\ artifacts' = Put(artifacts, TfjsPath(config[1]), "saved_model")
          /\ console' = console \o << "Model saved to",
                                      "TensorFlow.js model saved to" >>
          /\ ret' = None
          /\ Leave("save_model")
          /\ UNCHANGED << exc, cfgFile, trainer, epochsArg, fit, bench,
                          ghosts, callsLeft >>
       \/ /\ Raise("save_tfjs")
          /\ UNCHANGED files

(***************************************************************************)
(* MicroMentorTrainer.evaluate_latency                                     *)
(***************************************************************************)
\* time.time() - start around one predict, in clock ticks of one second.
\* time.time() is the wall clock: the difference is the time the inference
\* took (one tick here), unless the inference was quicker or slower than
\* that or the system clock was set back (by ClockSetBack ticks) meanwhile.
\* At most MaxClockEvents measurements of a run deviate from one tick.
Elapsed(events) ==
    {1} \cup IF events < MaxClockEvents THEN {0, 2, 0 - ClockSetBack} ELSE {}

\* for _ in range(10): self.model.predict(test_input)
LatencyWarmup ==
    /\ pc = "ev_warmup"
    /\ bench.warm < WarmupRuns
    /\ \/ /\ model # None
          /\ bench' = [ bench EXCEPT !.warm = @ + 1 ]
          /\ UNCHANGED << pc, stack, exc, files, console, trainer, epochsArg,
                          ret, fit, log, ghosts, callsLeft >>
       \/ /\ Raise("predict")
          /\ UNCHANGED files

\* import time; latencies = []
LatencyStartMeasuring ==
    /\ pc = "ev_warmup"
    /\ bench.warm = WarmupRuns
    /\ pc' = "ev_measure"
    /\ UNCHANGED << stack, exc, files, console, trainer, locals, log, ghosts,
                    callsLeft >>

\* start = time.time(); predict; latencies.append((time.time() - start) * 1000)
LatencyMeasure ==
    /\ pc = "ev_measure"
    /\ bench.count < MeasureRuns
    /\ \/ /\ \E d \in Elapsed(bench.events) :
                bench' = [ bench EXCEPT
                             !.count = @ + 1,
                             !.sum = @ + d * MsPerSecond,
                             !.events = IF d = 1 THEN @ ELSE @ + 1 ]
          /\ UNCHANGED << pc, stack, exc, files, console, trainer, epochsArg,
                          ret, fit, log, ghosts, callsLeft >>
       \/ /\ Raise("predict")
          /\ UNCHANGED files

\* avg_latency = np.mean(latencies), kept as the fraction sum / count.
LatencyReturn ==
    /\ pc = "ev_measure"
    /\ bench.count = MeasureRuns
    /\ ret' = Some([ num |-> bench.sum, den |-> bench.count ])
    /\ console' = Append(console, "Average inference latency")
    /\ Leave("evaluate_latency")
    /\ UNCHANGED << exc, files, trainer, epochsArg, fit, bench, ghosts,
                    callsLeft >>

(***************************************************************************)
(* main()                                                                  *)
(***************************************************************************)
\* os.makedirs('models/tfjs', exist_ok=True)
MainMakedirs ==
    /\ pc = "main_makedirs"
    /\ \/ /\ dirs' = dirs \cup Ancestors(MainOutputDir)
          /\ pc' = "main_write_config"
          /\ UNCHANGED << stack, exc, cfgFile, artifacts, console, trainer,
                          locals, log, ghosts, callsLeft >>
       \/ /\ Raise("makedirs")
          /\ UNCHANGED files

\* Variant of MainWriteConfig: a configuration file that is already there
\* is kept.
MainWriteConfigKeepsExisting ==
    /\ pc = "main_write_config"
    /\ \/ /\ Parent(ConfigPath) \in dirs
          /\ cfgFile' = IF cfgFile = None THEN Some(JsonDoc(MainConfig))
                        ELSE cfgFile
          /\ pc' = "main_new_trainer"
          /\ UNCHANGED << stack, exc, dirs, artifacts, console, trainer,
                          locals, log, ghosts, callsLeft >>
       \/ /\ Raise("config_write")
          /\ UNCHANGED files

\* with open('config/training_config.json', 'w') as f: json.dump(config, f)
\* The open fails when config/ does not exist; a failure of the dump leaves
\* the file it has already emptied.
MainWriteConfig ==
    /\ pc = "main_write_config"
    /\ \/ /\ Parent(ConfigPath) \in dirs
          /\ cfgFile' = Some(JsonDoc(MainConfig))
          /\ pc' = "main_new_trainer"
          /\ UNCHANGED << stack, exc, dirs, artifacts, console, trainer,
                          locals, log, ghosts, callsLeft >>
       \/ /\ Raise("config_write")
          /\ UNCHANGED files
       \/ /\ Parent(ConfigPath) \in dirs
          /\ cfgFile' = Some(TruncatedDoc(MainConfig))
          /\ Raise("config_write")
          /\ UNCHANGED << dirs, artifacts >>

\* trainer = MicroMentorTrainer()
MainNewTrainer ==
    /\ pc = "main_new_trainer"
    /\ Enter("__init__", "main_create_model")
    /\ UNCHANGED << exc, files, console, trainer, locals, ghosts, callsLeft >>

\* print("Creating MicroMentor model..."); trainer.create_model()
MainCreateModel ==
    /\ pc = "main_create_model"
    /\ console' = Append(console, "Creating MicroMentor model...")
    /\ Enter("create_model", "main_summary")
    /\ UNCHANGED << exc, files, trainer, locals, ghosts, callsLeft >>

\* print("Model Summary:"); trainer.model.summary()
MainSummary ==
    /\ pc = "main_summary"
    /\ \/ /\ model # None
          /\ console' = console \o << "Model Summary:", "summary" >>
          /\ pc' = "main_train"
          /\ UNCHANGED << stack, exc, files, trainer, locals, log, ghosts,
                          callsLeft >>
       \/ /\ Raise("summary")
          /\ UNCHANGED files

\* print("Training model..."); trainer.train(epochs=config['epochs'])
\* config is main's own dictionary, not the trainer's.
MainTrain ==
    /\ pc = "main_train"
    /\ console' = Append(console, "Training model...")
    /\ epochsArg' = Some(MainConfig.epochs)
    /\ Enter("train", "main_optimize")
    /\ UNCHANGED << exc, files, trainer, ret, fit, bench, ghosts,
                    callsLeft >>

\* print("Optimizing for edge deployment..."); trainer.optimize_for_edge()
MainOptimize ==
    /\ pc = "main_optimize"
    /\ console' = Append(console, "Optimizing for edge deployment...")
    /\ Enter("optimize_for_edge", "main_save")
    /\ UNCHANGED << exc, files, trainer, locals, ghosts, callsLeft >>

\* print("Saving models..."); trainer.save_model()
MainSave ==
    /\ pc = "main_save"
    /\ console' = Append(console, "Saving models...")
    /\ Enter("save_model", "main_latency")
    /\ UNCHANGED << exc, files, trainer, locals, ghosts, callsLeft >>

\* print("Evaluating latency..."); trainer.evaluate_latency()
MainLatency ==
    /\ pc = "main_latency"
    /\ console' = Append(console, "Evaluating latency...")
    /\ bench' = IdleBench
    /\ Enter("evaluate_latency", "main_complete")
    /\ UNCHANGED << exc, files, trainer, epochsArg, ret, fit, ghosts,
                    callsLeft >>

\* print("Training complete!"); print("Models saved in ... directory")
MainComplete ==
    /\ pc = "main_complete"
    /\ console' = console \o << "Training complete!", "Models saved in" >>
    /\ pc' = "done"
    /\ UNCHANGED << stack, exc, files, trainer, locals, log, ghosts,
                    callsLeft >>

TrainerStep ==
    \/ TrainerInit
    \/ CreateModelBuild
    \/ CreateModelCompile
    \/ PrepareData
    \/ TrainEnter
    \/ TrainPrepare
    \/ FitBegin
    \/ FitEpoch
    \/ CallbackEarlyStopping
    \/ CallbackReduceLR
    \/ FitFinish
    \/ OptimizeConvert
    \/ OptimizeOpen
    \/ OptimizeWrite
    \/ SaveModelKeras
    \/ SaveModelTfjs
    \/ LatencyWarmup
    \/ LatencyStartMeasuring
    \/ LatencyMeasure
    \/ LatencyReturn

\* What the script can find on disk when it starts: no config/ directory,
\* an empty one, or one holding the file of an earlier run.
Init ==
    /\ pc = "main_makedirs"
    /\ stack = << >>
    /\ exc = None
    /\ \E hasConfigDir \in BOOLEAN, hasModels \in BOOLEAN :
          /\ dirs = { WorkDir }
                      \cup (IF hasConfigDir THEN { Parent(ConfigPath) } ELSE {})
                      \cup (IF hasModels THEN Ancestors(MainOutputDir) ELSE {})
          /\ cfgFile \in IF hasConfigDir
                         THEN { None, Some(JsonDoc(StaleConfig)),
                                Some(JsonDoc(MainConfig)) }
                         ELSE { None }
    /\ artifacts = {}
    /\ console = << >>
    /\ config = None
    /\ model = None
    /\ history = None
    /\ epochsArg = None
    /\ ret = None
    /\ fit = IdleFit
    /\ bench = IdleBench
    /\ log = << >>
    /\ cfgReads = 0
    /\ keysRead = {}
    /\ modelsBuilt = 0
    /\ callsLeft = 0

Next ==
    \/ MainMakedirs
    \/ MainWriteConfig
    \/ MainNewTrainer
    \/ MainCreateModel
    \/ MainSummary
    \/ MainTrain
    \/ MainOptimize
    \/ MainSave
    \/ MainLatency
    \/ MainComplete
    \/ TrainerStep

Spec == Init /\ [][Next]_vars

(***************************************************************************)
(* Any caller: one trainer over some configuration file, then up to        *)
(* MaxCalls calls of its methods, in any order.                            *)
(***************************************************************************)
ApiNewTrainer ==
    /\ pc = "api_new"
    /\ Enter("__init__", "api_idle")
    /\ UNCHANGED << exc, files, console, trainer, locals, ghosts, callsLeft >>

ApiCall(method) ==
    /\ pc = "api_idle"
    /\ callsLeft > 0
    /\ callsLeft' = callsLeft - 1
    /\ ret' = None
    /\ bench' = IdleBench
    /\ Enter(method, "api_idle")
    /\ UNCHANGED << exc, files, console, trainer, fit, ghosts >>

ApiCreateModel == ApiCall("create_model") /\ UNCHANGED epochsArg

ApiPrepareData == ApiCall("prepare_data") /\ UNCHANGED epochsArg

\* train(e), or train() with the default epochs=10
ApiTrain == ApiCall("train") /\ \E epochs \in EpochArgs : epochsArg' = epochs

ApiOptimize == ApiCall("optimize_for_edge") /\ UNCHANGED epochsArg

ApiSave == ApiCall("save_model") /\ UNCHANGED epochsArg

ApiLatency == ApiCall("evaluate_latency") /\ UNCHANGED epochsArg

InitAPI ==
    /\ pc = "api_new"
    /\ stack = << >>
    /\ exc = None
    /\ dirs = { WorkDir, Parent(ConfigPath) } \cup Ancestors(MainOutputDir)
    /\ cfgFile \in { Some(JsonDoc(c)) : c \in ApiConfigs }
                     \cup { None, Some(TruncatedDoc(MainConfig)) }
    /\ artifacts = {}
    /\ console = << >>
    /\ config = None
    /\ model = None
    /\ history = None
    /\ epochsArg = None
    /\ ret = None
    /\ fit = IdleFit
    /\ bench = IdleBench
    /\ log = << >>
    /\ cfgReads = 0
    /\ keysRead = {}
    /\ modelsBuilt = 0
    /\ callsLeft = MaxCalls

NextAPI ==
    \/ ApiNewTrainer
    \/ ApiCreateModel
    \/ ApiPrepareData
    \/ ApiTrain
    \/ ApiOptimize
    \/ ApiSave
    \/ ApiLatency
    \/ TrainerStep

SpecAPI == InitAPI /\ [][NextAPI]_vars

(***************************************************************************)
(* Properties.                                                             *)
(***************************************************************************)
Range(seq) == { seq[i] : i \in 1 .. Len(seq) }
LastCall == IF log = << >> THEN << "", "" >> ELSE log[Len(log)]
Returned(method) == exc = None /\ LastCall = << method, "end" >>
IsPrefix(a, b) == Len(a) <= Len(b) /\ a = SubSeq(b, 1, Len(a))

\* C1: prepare_data returns an 80/20 split of its 1000 samples: the training
\* part is the samples [0, 800), the validation part the samples
\* [800, 1000), every sample is in exactly one part, and the emotion and
\* fatigue labels are cut at the same index, so that row k of each label
\* array is the label drawn for sample k of its part.
C1_SplitIs80_20 ==
    Returned("prepare_data") =>
        LET d == ret[1]
            t == d.train
            v == d.val
        IN  /\ Len(t.X) = 800
            /\ Len(v.X) = 200
            /\ Len(t.X) + Len(v.X) = NumSamples
            /\ 10 * Len(t.X) = 8 * NumSamples
            /\ t.X \o v.X = [ i \in 1 .. NumSamples |-> i - 1 ]
            /\ Len(t.emotion) = Len(t.X) /\ Len(t.fatigue) = Len(t.X)
            /\ Len(v.emotion) = Len(v.X) /\ Len(v.fatigue) = Len(v.X)
            /\ \A k \in 1 .. Len(t.X) :
                  /\ t.emotion[k] = ToCategorical(EmotionOf(d.seed, t.X[k]), 5)
                  /\ t.fatigue[k] = << FatigueOf(d.seed, t.X[k]) >>
            /\ \A k \in 1 .. Len(v.X) :
                  /\ v.emotion[k] = ToCategorical(EmotionOf(d.seed, v.X[k]), 5)
                  /\ v.fatigue[k] = << FatigueOf(d.seed, v.X[k]) >>

\* prepare_data has returned its split to train().
C1_Witness == Returned("prepare_data") /\ pc = "tr_fit" /\ ret # None

\* C2: evaluate_latency runs its 10 warm-up inferences before the first
\* measured one, then 100 measured ones; the average it returns is
\* non-negative and is taken over no fewer than 100 samples, none of them
\* from a warm-up inference.
C2_LatencyAverage ==
    /\ bench.count > 0 => bench.warm = 10
    /\ Returned("evaluate_latency") =>
          /\ bench.warm = 10
          /\ bench.count = 100
          /\ ret[1].den >= 100
          /\ ret[1].den = bench.count
          /\ ret[1].num >= 0

\* The parts of C2 other than the sign of the average.
C2_Counts ==
    /\ bench.count > 0 => bench.warm = 10
    /\ Returned("evaluate_latency") =>
          /\ bench.warm = 10
          /\ bench.count = 100
          /\ ret[1].den = 100

PipelineSteps ==
    { "__init__", "create_model", "prepare_data", "fit", "optimize_for_edge",
      "save_model", "evaluate_latency" }
IsPipelineStep(event) == event[1] \in PipelineSteps
PipelineOrder ==
    << << "__init__", "begin" >>, << "__init__", "end" >>,
       << "create_model", "begin" >>, << "create_model", "end" >>,
       << "prepare_data", "begin" >>, << "prepare_data", "end" >>,
       << "fit", "begin" >>, << "fit", "end" >>,
       << "optimize_for_edge", "begin" >>, << "optimize_for_edge", "end" >>,
       << "save_model", "begin" >>, << "save_model", "end" >>,
       << "evaluate_latency", "begin" >>, << "evaluate_latency", "end" >> >>

\* C3: the steps of main run in the fixed order configuration load, model
\* assembly, dataset generation, training, edge optimization, serialization,
\* latency benchmark; each begins only after the one before it has returned,
\* and in a run that finishes each has run exactly once, with one model
\* assembled.
C3_FixedSequence ==
    /\ IsPrefix(SelectSeq(log, IsPipelineStep), PipelineOrder)
    /\ modelsBuilt <= 1
    /\ pc = "done" =>
          /\ SelectSeq(log, IsPipelineStep) = PipelineOrder
          /\ modelsBuilt = 1

C3_Witness == pc = "done" /\ exc = None /\ modelsBuilt = 1

\* C4: when main has finished, exactly three model artifacts have been
\* written: the model file micromentor_model.h5, the saved-model directory
\* tfjs and the lite file micromentor_edge.tflite, each directly under the
\* output_path of the configuration the trainer loaded, and nothing else.
C4_ThreeArtifacts ==
    pc = "done" =>
        LET out == config[1].output_path
        IN  /\ artifacts =
                 { [ path |-> out \o << "micromentor_model.h5" >>,
                     content |-> "h5" ],
                   [ path |-> out \o << "tfjs" >>,
                     content |-> "saved_model" ],
                   [ path |-> out \o << "micromentor_edge.tflite" >>,
                     content |-> "tflite" ] }
            /\ Cardinality(artifacts) = 3
            /\ \A f \in artifacts : IsUnder(f.path, out)
            /\ out = cfgFile[1].value.output_path

C4_Witness == pc = "done" /\ Cardinality(artifacts) = 3

\* C5: a failure in any step ends the process at once: the step that failed
\* is not run again, no later step runs, the completion message is not
\* printed, and what earlier steps wrote (artifacts, directories) and
\* printed stays as it was.
C5_FailurePropagates ==
    [][ /\ exc = None
        /\ exc' # None =>
              /\ pc' = "terminated"
              /\ artifacts' = artifacts
              /\ dirs' = dirs
              /\ console' = console
              /\ log' = log
              /\ "Training complete!" \notin Range(console') ]_vars

\* save_model failed at its second write, after two artifacts were written.
C5_Witness ==
    /\ pc = "terminated"
    /\ exc = Some("save_tfjs")
    /\ Cardinality(artifacts) = 2

\* C6: the configuration is loaded once, by the constructor; afterwards no
\* method of the trainer, in any order of calls, changes self.config or
\* loads the configuration file again.
C6_ConfigImmutable ==
    [][ /\ cfgReads' # cfgReads => pc = "init_load" /\ cfgReads = 0
        /\ (config # None /\ exc' = None) =>
              /\ config' = config
              /\ config' = Some(cfgFile'[1].value) ]_vars

\* Two methods have run on a trainer, one of them writing an artifact.
C6_Witness ==
    /\ pc = "api_idle"
    /\ callsLeft = 0
    /\ config # None
    /\ artifacts # {}
    /\ history # None

\* C7: fit runs at most `epochs` epochs; it stops exactly when 3 epochs in a
\* row have brought no validation loss below the best one so far; and when
\* it stops early the learning rate has already been halved at least once
\* during this fit.
C7_EarlyStopAfterHalving ==
    fit.active =>
        /\ fit.hist.epochs <= fit.epochs
        /\ fit.hist.plateau <= 3
        /\ pc \in { "cb_reducelr", "fit_loop" } =>
              (fit.stop <=> fit.hist.plateau >= 3)
        /\ fit.stop => model[1].lrHalvings > fit.lr0

\* Early stopping has ended a fit before its epochs were used up.
C7_Witness ==
    /\ fit.active
    /\ pc = "fit_loop"
    /\ fit.stop
    /\ fit.epoch < fit.epochs

\* C8: once create_model has returned, self.model is the model it returned:
\* two outputs, 'emotion' of shape (5,) then 'fatigue' of shape (1,), a
\* frozen backbone, and a loss and a metric for each output by its name.
C8_TwoNamedOutputs ==
    /\ Returned("create_model") =>
          model # None /\ model[1].compiled /\ ret = model
    /\ (model # None /\ model[1].compiled) =>
          LET m == model[1]
          IN  /\ Len(m.outputs) = 2
              /\ m.outputs[1].name = "emotion"
              /\ OutputShape(m.outputs[1]) = << 5 >>
              /\ m.outputs[2].name = "fatigue"
              /\ OutputShape(m.outputs[2]) = << 1 >>
              /\ ~ m.backbone.trainable
              /\ DOMAIN m.loss[1] = { "emotion", "fatigue" }
              /\ DOMAIN m.metrics[1] = { "emotion", "fatigue" }
              /\ \A o \in { "emotion", "fatigue" } : m.metrics[1][o] # << >>

\* create_model was called directly and has returned.
C8_Witness == Returned("create_model") /\ pc = "api_idle"

\* C9: the epochs and batch_size of the loaded configuration never reach
\* fit: train(e) passes epochs = e (10 when e is omitted) and batch_size =
\* 32 whatever the configuration holds, and output_path is the only key of
\* self.config a method reads.
C9_ConfigHyperparametersUnused ==
    /\ keysRead \subseteq { "output_path" }
    /\ fit.active =>
          /\ fit.epochs = IF epochsArg = None THEN 10 ELSE epochsArg[1]
          /\ fit.batch_size = 32

\* A fit runs with epochs and batch size other than the configuration's.
C9_Witness ==
    /\ fit.active
    /\ config[1].epochs # fit.epochs
    /\ config[1].batch_size # fit.batch_size

\* C10: the record the trainer loads is the dictionary main has just
\* written.  main creates models/tfjs but not config/: while config/ does
\* not exist the run gets no further than the configuration write, which
\* fails with models/tfjs created and with no trainer constructed, no model
\* assembled and no artifact written.
C10_ConfigWrittenThenRead ==
    /\ config # None => config[1] = MainConfig
    /\ Parent(ConfigPath) \notin dirs =>
          /\ pc \in { "main_makedirs", "main_write_config", "terminated" }
          /\ pc = "terminated" =>
                exc \in { Some("makedirs"), Some("config_write") }
          /\ cfgReads = 0 /\ modelsBuilt = 0 /\ artifacts = {}
    /\ exc = Some("config_write") =>
          /\ MainOutputDir \in dirs
          /\ cfgReads = 0 /\ modelsBuilt = 0 /\ artifacts = {}

\* The configuration write has failed for want of the config/ directory.
C10_Witness ==
    /\ exc = Some("config_write")
    /\ Parent(ConfigPath) \notin dirs
    /\ MainOutputDir \in dirs

====
